---- MODULE Spec2Model ----
(***************************************************************************)
(* A model of bot.py: the bounded recency cache (SizedCache), the          *)
(* timestamp and emoji template substitution (parse_spec, dt_replacer,     *)
(* emoji_replacer, update_emojis, make_message), the timezone file         *)
(* (get_timezone, set_timezone) and the command handlers (echo_command,    *)
(* timezone_command, edit_context, delete_context).                        *)
(***************************************************************************)
EXTENDS Integers, Sequences, FiniteSets, TLC

(***************************************************************************)
(* Bounds of the model.                                                    *)
(***************************************************************************)
\* keys offered to the cache under test are 1..MaxKey
MaxKey == 3
\* values offered to the cache under test are 1..MaxVal
MaxVal == 2
\* the cache under test is constructed with a size in 1..MaxSize
MaxSize == 2
\* number of cache operations in one run
MaxOps == 5
\* longest text before the "!" of a timestamp token
MaxPrefixLen == 2
\* /timezone invocations that may wait for their ctx.send at a time
MaxPending == 2
\* handler invocations that may be in flight at a time
MaxTasks == 2
\* messages the platform lets /echo send in one run
MaxMsg == 1
\* the platform's emoji identifiers are 1..MaxEmojiId
MaxEmojiId == 1
\* the clock advances in steps of TickSeconds, MaxTicks times
TickSeconds == 150
MaxTicks == 1
\* handler invocations in one run
MaxInvocations == 2
\* update_emojis and EMOJI_PATTERN.sub calls on the directory under test
MaxEmojiOps == 3

None == "None"

\* timestr_cache = SizedCache(100)
TimestrCacheSize == 100
\* timedelta(minutes=5), in seconds
ThrottleSeconds == 300
\* wait_for_modal(modal, timeout=600)
ModalTimeoutSeconds == 600

Keys == 1..MaxKey
Vals == 1..MaxVal

VARIABLES
    cache,       \* a SizedCache under test: [size, list, values]
    ops,         \* number of operations performed on cache so far
    lastOp,      \* the last operation on cache, its arguments and outcome
    lastSet,     \* per key: index of the last __setitem__ of it (0: never)
    lastAccess,  \* per key: index of the last __setitem__ or successful
                 \* __getitem__ of it (0: never)
    token,       \* a timestamp token matched by DT_PATTERN: its groups
    style,       \* what parse_spec returned for token (<<>>: not called yet)
    tzfile,      \* timezone.txt: <<>> if there is no file, else <<its text>>
    tzLastH,     \* <<>>, or <<h>> for the last /timezone argument written
    tzPending,   \* /timezone invocations waiting for their ctx.send
    tzRead,      \* <<>>, or <<what the last get_timezone() returned>>
    now,         \* the clock: seconds since the epoch
    emojis,      \* the emoji directory: name -> id
    emoji_updated,  \* the time update_emojis compares the clock with
    refreshedAt, \* <<>>, or <<the time the last directory fetch returned>>
    timestr_cache,  \* the SizedCache of the handlers: message id -> template
    messages,    \* the platform's messages: id -> [author, content]
    tasks,       \* the handler invocations in flight or ended, per slot
    started,     \* number of handler invocations so far
    instant,     \* <<>>, or <<what dt_replacer returned for token>>
    refreshed,   \* <<>>, or <<[before, items]>>: the directory before the
                 \* last update_emojis and the items its fetch returned
    resolved,    \* <<>>, or <<[string, out]>>: the last string given to
                 \* EMOJI_PATTERN.sub and what it returned
    emojiOps     \* number of update_emojis and EMOJI_PATTERN.sub calls

cacheVars == <<cache, ops, lastOp, lastSet, lastAccess>>
parseVars == <<token, style>>
tzVars == <<tzfile, tzLastH, tzPending, tzRead>>
botVars == <<now, emojis, emoji_updated, refreshedAt, timestr_cache,
             messages, tasks, started>>
subVars == <<instant, refreshed, resolved, emojiOps>>
notCacheVars == <<parseVars, tzVars, botVars, subVars>>
notParseVars == <<cacheVars, tzVars, botVars, subVars>>
notTzVars == <<cacheVars, parseVars, botVars, subVars>>
notBotVars == <<cacheVars, parseVars, tzfile, tzLastH, tzPending, tzRead,
                subVars>>

notDtVars == <<cacheVars, parseVars, tzVars, botVars, refreshed, resolved,
                emojiOps>>
notEmojiVars == <<cacheVars, parseVars, tzVars, now, emoji_updated,
                   refreshedAt, timestr_cache, messages, tasks, started,
                   instant>>

vars == <<cacheVars, parseVars, tzVars, botVars, subVars>>

(***************************************************************************)
(* Sequence and function helpers standing for Python's list and dict.      *)
(***************************************************************************)
\* index of the first occurrence of x in s (0 if none): list.index
RECURSIVE IndexOf(_, _, _)
IndexOf(s, x, i) ==
    IF i > Len(s) THEN 0
    ELSE IF s[i] = x THEN i
    ELSE IndexOf(s, x, i + 1)

\* list.remove(x): drops the first occurrence of x
ListRemove(s, x) ==
    LET i == IndexOf(s, x, 1)
    IN  IF i = 0 THEN s
        ELSE SubSeq(s, 1, i - 1) \o SubSeq(s, i + 1, Len(s))

\* del d[k]
DictDel(d, k) == [x \in (DOMAIN d) \ {k} |-> d[x]]

\* d[k] = v
DictSet(d, k, v) == [x \in (DOMAIN d) \cup {k} |-> IF x = k THEN v ELSE d[x]]

EmptyDict == [x \in {} |-> None]

SeqSet(s) == {s[i] : i \in 1..Len(s)}

(***************************************************************************)
(* SizedCache                                                              *)
(***************************************************************************)
\* SizedCache.__init__
SizedCacheInit(size) == [size |-> size, list |-> <<>>, values |-> EmptyDict]

\* the keys SizedCache.__setitem__ pops off the list: one key or none
Evicted(self, key) ==
    LET l1 == IF key \in DOMAIN self.values
              THEN ListRemove(self.list, key) ELSE self.list
    IN  IF Len(l1) >= self.size THEN {Head(l1)} ELSE {}

\* __setitem__ with a fault: pops the newest key, list.pop(), not the oldest
SetItemEvictNewest(self, key, value) ==
    LET l1 == IF key \in DOMAIN self.values
              THEN ListRemove(self.list, key) ELSE self.list
        evict == Len(l1) >= self.size
        old == l1[Len(l1)]
        l2 == IF evict THEN SubSeq(l1, 1, Len(l1) - 1) ELSE l1
        v2 == IF evict THEN DictDel(self.values, old) ELSE self.values
    IN  [self EXCEPT !.list = Append(l2, key),
                     !.values = DictSet(v2, key, value)]

\* __setitem__ with a fault: evicts only when len(self.list) > self.size
SetItemOffByOne(self, key, value) ==
    LET l1 == IF key \in DOMAIN self.values
              THEN ListRemove(self.list, key) ELSE self.list
        evict == Len(l1) > self.size
        old == Head(l1)
        l2 == IF evict THEN Tail(l1) ELSE l1
        v2 == IF evict THEN DictDel(self.values, old) ELSE self.values
    IN  [self EXCEPT !.list = Append(l2, key),
                     !.values = DictSet(v2, key, value)]

\* __setitem__ with a fault: a stored key keeps its place in the list
SetItemNoMove(self, key, value) ==
    IF key \in DOMAIN self.values
    THEN [self EXCEPT !.values = DictSet(self.values, key, value)]
    ELSE LET evict == Len(self.list) >= self.size
             old == Head(self.list)
             l2 == IF evict THEN Tail(self.list) ELSE self.list
             v2 == IF evict THEN DictDel(self.values, old) ELSE self.values
         IN  [self EXCEPT !.list = Append(l2, key),
                          !.values = DictSet(v2, key, value)]

\* __setitem__ with a fault: the capacity test comes before the removal of
\* the key itself
SetItemEvictOnHit(self, key, value) ==
    LET evict == Len(self.list) >= self.size
        old == Head(self.list)
        l1 == IF evict THEN Tail(self.list) ELSE self.list
        v1 == IF evict THEN DictDel(self.values, old) ELSE self.values
        l2 == IF key \in DOMAIN v1 THEN ListRemove(l1, key) ELSE l1
    IN  [self EXCEPT !.list = Append(l2, key),
                     !.values = DictSet(v1, key, value)]

\* __setitem__ with a fault: a stored key is not removed from the list
\* before it is appended
SetItemNoRemove(self, key, value) ==
    LET l1 == self.list
        evict == Len(l1) >= self.size
        old == Head(l1)
        l2 == IF evict THEN Tail(l1) ELSE l1
        v2 == IF evict THEN DictDel(self.values, old) ELSE self.values
    IN  [self EXCEPT !.list = Append(l2, key),
                     !.values = DictSet(v2, key, value)]

\* SizedCache.__setitem__
SetItem(self, key, value) ==
    LET l1 == IF key \in DOMAIN self.values
              THEN ListRemove(self.list, key) ELSE self.list
        evict == Len(l1) >= self.size
        old == Head(l1)
        l2 == IF evict THEN Tail(l1) ELSE l1
        v2 == IF evict THEN DictDel(self.values, old) ELSE self.values
    IN  [self EXCEPT !.list = Append(l2, key),
                     !.values = DictSet(v2, key, value)]

\* SizedCache.__contains__
Contains(self, item) == item \in DOMAIN self.values

\* SizedCache.__getitem__: the stored value, or KeyError
GetItem(self, item) ==
    IF item \in DOMAIN self.values THEN self.values[item] ELSE "KeyError"

(***************************************************************************)
(* The cache under test: any sequence of set, get and contains.            *)
(***************************************************************************)
\* a cache of the given size on which nothing was done yet
CacheConstructed(n) ==
    /\ cache = SizedCacheInit(n)
    /\ ops = 0
    /\ lastOp = [op |-> "init", key |-> None, value |-> None,
                 result |-> None, evicted |-> {}, before |-> None]
    /\ lastSet = [k \in Keys |-> 0]
    /\ lastAccess = [k \in Keys |-> 0]

\* no token is being parsed
NoToken ==
    /\ token = <<>>
    /\ style = <<>>

\* no timezone.txt yet, no /timezone invoked yet
NoTimezone ==
    /\ tzfile = <<>>
    /\ tzLastH = <<>>
    /\ tzPending = 0
    /\ tzRead = <<>>

\* no substitution under test
NoSubstitution ==
    /\ instant = <<>>
    /\ refreshed = <<>>
    /\ resolved = <<>>
    /\ emojiOps = 0

\* the module's globals as lines 164-166 set them, no handler invoked
BotLoaded ==
    /\ emojis = EmptyDict
    /\ emoji_updated = 0
    /\ refreshedAt = <<>>
    /\ timestr_cache = SizedCacheInit(TimestrCacheSize)
    /\ messages = EmptyDict
    /\ tasks = <<>>
    /\ started = 0
    /\ now = 0

InitCache ==
    /\ \E n \in 1..MaxSize : CacheConstructed(n)
    /\ NoToken
    /\ NoTimezone
    /\ BotLoaded
    /\ NoSubstitution

CacheSet(key, value) ==
    /\ ops < MaxOps
    /\ cache' = SetItem(cache, key, value)
    /\ ops' = ops + 1
    /\ lastOp' = [op |-> "set", key |-> key, value |-> value,
                  result |-> None, evicted |-> Evicted(cache, key),
                  before |-> cache]
    /\ lastSet' = [lastSet EXCEPT ![key] = ops + 1]
    /\ lastAccess' = [lastAccess EXCEPT ![key] = ops + 1]
    /\ UNCHANGED notCacheVars

CacheGet(item) ==
    /\ ops < MaxOps
    /\ ops' = ops + 1
    /\ lastOp' = [op |-> "get", key |-> item, value |-> None,
                  result |-> GetItem(cache, item), evicted |-> {},
                  before |-> cache]
    /\ lastAccess' = IF Contains(cache, item)
                     THEN [lastAccess EXCEPT ![item] = ops + 1]
                     ELSE lastAccess
    /\ UNCHANGED <<cache, lastSet>>
    /\ UNCHANGED notCacheVars

CacheContains(item) ==
    /\ ops < MaxOps
    /\ ops' = ops + 1
    /\ lastOp' = [op |-> "contains", key |-> item, value |-> None,
                  result |-> Contains(cache, item), evicted |-> {},
                  before |-> cache]
    /\ UNCHANGED <<cache, lastSet, lastAccess>>
    /\ UNCHANGED notCacheVars

NextCache ==
    \/ \E k \in Keys, v \in Vals : CacheSet(k, v)
    \/ \E k \in Keys : CacheGet(k)
    \/ \E k \in Keys : CacheContains(k)

SpecCache == InitCache /\ [][NextCache]_vars

(***************************************************************************)
(* Properties of the cache under test (specification SpecCache).           *)
(***************************************************************************)
StoredKeys == DOMAIN cache.values

\* C1: after any sequence of set, get and contains on a cache constructed
\* with capacity N > 0, the number of stored keys is at most N.
C1_SizeAtMostCapacity ==
    /\ cache.size > 0
    /\ Cardinality(StoredKeys) <= cache.size
    /\ Len(cache.list) <= cache.size

\* a set on a full cache has just evicted a key and the cache is full again
C1_Witness ==
    /\ lastOp.op = "set"
    /\ lastOp.evicted # {}
    /\ Cardinality(StoredKeys) = cache.size

\* the last operation was a set of a key that was absent from a full cache
SetOfAbsentKeyOnFull ==
    /\ lastOp.op = "set"
    /\ lastOp.key \notin DOMAIN lastOp.before.values
    /\ Cardinality(DOMAIN lastOp.before.values) = lastOp.before.size

\* C2: a set of a key absent from a full cache evicts exactly the key at the
\* front of the recency order together with its value and keeps every other
\* entry; inserting capacity+1 distinct keys into an empty cache evicts
\* exactly the first-inserted key.
C2_EvictsFront ==
    /\ SetOfAbsentKeyOnFull =>
         LET b == lastOp.before
             front == Head(b.list)
         IN  /\ lastOp.evicted = {front}
             /\ front \notin StoredKeys
             /\ front \notin SeqSet(cache.list)
             /\ StoredKeys = ((DOMAIN b.values) \ {front}) \cup {lastOp.key}
             /\ \A k \in (DOMAIN b.values) \ {front} :
                    cache.values[k] = b.values[k]
             /\ cache.values[lastOp.key] = lastOp.value
             /\ cache.list = Append(Tail(b.list), lastOp.key)
    /\ (/\ ops = cache.size + 1
        /\ Cardinality({k \in Keys : lastSet[k] # 0}) = cache.size + 1)
         => StoredKeys = {k \in Keys : lastSet[k] >= 2}

\* capacity+1 distinct keys were inserted into an empty cache of capacity > 1
C2_Witness ==
    /\ SetOfAbsentKeyOnFull
    /\ cache.size > 1
    /\ ops = cache.size + 1
    /\ Cardinality({k \in Keys : lastSet[k] # 0}) = cache.size + 1

\* the last operation was a set of a key that was already stored
SetOfStoredKey ==
    /\ lastOp.op = "set"
    /\ lastOp.key \in DOMAIN lastOp.before.values

\* s without the key k, order kept
Without(s, k) == SelectSeq(s, LAMBDA x : x # k)

\* C3: a set of a key already in the cache, also when the cache is full,
\* replaces that key's value, moves the key to the most-recently-used end,
\* leaves the number of entries unchanged and evicts no other key.
C3_ResetMovesToEnd ==
    SetOfStoredKey =>
        LET b == lastOp.before
        IN  /\ cache.values[lastOp.key] = lastOp.value
            /\ cache.list[Len(cache.list)] = lastOp.key
            /\ Without(cache.list, lastOp.key) = Without(b.list, lastOp.key)
            /\ Len(cache.list) = Len(b.list)
            /\ StoredKeys = DOMAIN b.values
            /\ \A k \in StoredKeys \ {lastOp.key} :
                   cache.values[k] = b.values[k]
            /\ lastOp.evicted = {}

\* a full cache of capacity > 1 had its least-recent key set again, with a
\* new value
C3_Witness ==
    /\ SetOfStoredKey
    /\ lastOp.before.size > 1
    /\ Len(lastOp.before.list) = lastOp.before.size
    /\ Head(lastOp.before.list) = lastOp.key
    /\ lastOp.before.values[lastOp.key] # lastOp.value

\* the recency order lists the stored keys by increasing t, and the key the
\* last set evicted is older by t than every key it left in the cache
OrderedBy(t) ==
    /\ \A i, j \in 1..Len(cache.list) :
           i < j => t[cache.list[i]] < t[cache.list[j]]
    /\ (lastOp.op = "set" /\ lastOp.evicted # {}) =>
           \A e \in lastOp.evicted, k \in StoredKeys : t[e] < t[k]

\* C4 (as claimed): the recency order lists the stored keys by their most
\* recent set or get, so the key evicted by an overflowing set is the one
\* whose last set or get is oldest.
C4_OrderedByLastAccess == OrderedBy(lastAccess)

\* C4 (amended): the recency order lists the stored keys by their most
\* recent set; a get does not change the order, so the key evicted by an
\* overflowing set is the one whose last set is oldest.
C4_OrderedByLastSet == OrderedBy(lastSet)

\* a set has evicted a key while some stored key had been read by a get
\* after its last set
C4_Witness ==
    /\ lastOp.op = "set"
    /\ lastOp.evicted # {}
    /\ \E k \in StoredKeys : lastAccess[k] > lastSet[k]
    /\ \E e \in lastOp.evicted : lastAccess[e] > lastSet[e]

\* C19: in every state reachable by set operations on a recency cache, the
\* recency list holds no key twice and its set of elements is the key set
\* of the value map, so every eviction removes a key that has a stored
\* value and contains(key) is true exactly for the keys in the recency list.
C19_ListMatchesValues ==
    /\ Cardinality(SeqSet(cache.list)) = Len(cache.list)
    /\ SeqSet(cache.list) = DOMAIN cache.values
    /\ lastOp.op = "set" =>
           /\ lastOp.evicted \subseteq DOMAIN lastOp.before.values
           /\ lastOp.evicted \cap SeqSet(cache.list) \subseteq {lastOp.key}
    /\ lastOp.op = "contains" =>
           lastOp.result = (lastOp.key \in SeqSet(cache.list))

\* contains answered no for a key that was set and evicted since, on a full
\* cache in which a stored key was set again
C19_Witness ==
    /\ lastOp.op = "contains"
    /\ lastOp.result = FALSE
    /\ lastSet[lastOp.key] > 0
    /\ Len(cache.list) = cache.size
    /\ cache.size > 1
    /\ \E k \in StoredKeys : lastSet[k] > lastSet[lastOp.key] + 1

(***************************************************************************)
(* Text: a str is a sequence of one-character strings.                     *)
(***************************************************************************)
\* all sequences over S of length at most n
SeqsUpTo(S, n) == UNION {[1..k -> S] : k \in 0..n}

DigitChar == <<"0", "1", "2", "3", "4", "5", "6", "7", "8", "9">>

\* the decimal digits of n >= 0
RECURSIVE DecStr(_)
DecStr(n) ==
    IF n < 10 THEN <<DigitChar[n + 1]>>
    ELSE DecStr(n \div 10) \o <<DigitChar[(n % 10) + 1]>>

\* str.startswith(c) for a one-character c
StartsWith(string, c) == Len(string) > 0 /\ string[1] = c

\* c in string
InStr(c, string) == IndexOf(string, c, 1) # 0

\* string.partition(c)[0]: the text before the first c
PartitionHead(string, c) == SubSeq(string, 1, IndexOf(string, c, 1) - 1)

(***************************************************************************)
(* Timestamp tokens.  A match of DT_PATTERN is the record of what each     *)
(* part of the pattern matched: tilde ([~]?), prefix ((?:.*?!)?, <<>> when *)
(* that part matched nothing, else <<the text before the "!">>) and the    *)
(* six groups y, m, d, H, M, S (<<>> for a group that is None, else        *)
(* <<its int>>).                                                           *)
(***************************************************************************)
\* match.string[begin + 1 : end - 1]: the text between the braces
InnerText(tok) ==
    LET num(g) == DecStr(g[1])
    IN  (IF tok.tilde THEN <<"~">> ELSE <<>>)
        \o (IF tok.prefix # <<>> THEN tok.prefix[1] \o <<"!">> ELSE <<>>)
        \o (IF tok.y # <<>> THEN num(tok.y) \o <<"/">> ELSE <<>>)
        \o (IF tok.d # <<>>
            THEN num(tok.m) \o <<"/">> \o num(tok.d)
                 \o (IF tok.H # <<>> THEN <<" ">> ELSE <<>>)
            ELSE <<>>)
        \o (IF tok.H # <<>> THEN num(tok.H) \o <<":">> \o num(tok.M) ELSE <<>>)
        \o (IF tok.S # <<>> THEN <<":">> \o num(tok.S) ELSE <<>>)

\* parse_spec with a fault: timed and dated is tested before the prefix
ParseSpecFieldsFirst(string, timed, dated) ==
    IF StartsWith(string, "~") THEN ":R"
    ELSE IF timed /\ dated THEN ":f"
    ELSE IF InStr("!", string)
            /\ StartsWith(PartitionHead(string, "!"), "t") THEN ":t"
    ELSE IF InStr("!", string)
            /\ StartsWith(PartitionHead(string, "!"), "d") THEN ":D"
    ELSE IF timed /\ ~dated THEN ":t"
    ELSE IF ~timed /\ dated THEN ":D"
    ELSE ""

\* parse_spec
parse_spec(string, timed, dated) ==
    IF StartsWith(string, "~") THEN ":R"
    ELSE IF InStr("!", string)
            /\ StartsWith(PartitionHead(string, "!"), "t") THEN ":t"
    ELSE IF InStr("!", string)
            /\ StartsWith(PartitionHead(string, "!"), "d") THEN ":D"
    ELSE IF timed /\ dated THEN ":f"
    ELSE IF timed /\ ~dated THEN ":t"
    ELSE IF ~timed /\ dated THEN ":D"
    ELSE ""

\* dt_replacer, lines 127-130: the style suffix of a matched token
TokenSpec(tok) ==
    LET timed == tok.H # <<>>
        dated == tok.d # <<>>
    IN  parse_spec(InnerText(tok), timed, dated)

(***************************************************************************)
(* parse_spec on every shape of token (specification SpecParse).           *)
(***************************************************************************)
PrefixChars == {"t", "d", "x", "~", "!"}

\* what (?:.*?!)? can match: nothing, or a text and the "!" after it
Prefixes == {<<>>} \cup {<<p>> : p \in SeqsUpTo(PrefixChars, MaxPrefixLen)}

\* the date and the time part of a token, each in every shape the pattern
\* allows
DateShapes ==
    { [y |-> <<>>, m |-> <<>>, d |-> <<>>],
      [y |-> <<>>, m |-> <<1>>, d |-> <<15>>],
      [y |-> <<2024>>, m |-> <<1>>, d |-> <<15>>] }

TimeShapes ==
    { [H |-> <<>>, M |-> <<>>, S |-> <<>>],
      [H |-> <<9>>, M |-> <<30>>, S |-> <<>>],
      [H |-> <<9>>, M |-> <<30>>, S |-> <<45>>] }

MkToken(tilde, prefix, date, time) ==
    [tilde |-> tilde, prefix |-> prefix,
     y |-> date.y, m |-> date.m, d |-> date.d,
     H |-> time.H, M |-> time.M, S |-> time.S]

ShapeTokens ==
    { MkToken(t, p, dd, tt) :
        t \in BOOLEAN, p \in Prefixes, dd \in DateShapes, tt \in TimeShapes }

InitParse ==
    /\ token \in ShapeTokens
    /\ style = <<>>
    /\ CacheConstructed(1)
    /\ NoTimezone
    /\ BotLoaded
    /\ NoSubstitution

ApplyParseSpec ==
    /\ style = <<>>
    /\ style' = <<TokenSpec(token)>>
    /\ UNCHANGED token
    /\ UNCHANGED notParseVars

NextParse == ApplyParseSpec

SpecParse == InitParse /\ [][NextParse]_vars

\* the token's text begins with "~"
BeginsWithTilde(tok) ==
    \/ tok.tilde
    \/ tok.prefix # <<>> /\ tok.prefix[1] # <<>> /\ tok.prefix[1][1] = "~"

\* the token has a "!"-delimited prefix whose first character is c
PrefixBegins(tok, c) ==
    tok.prefix # <<>> /\ tok.prefix[1] # <<>> /\ tok.prefix[1][1] = c

\* the priority rule of the claim, on the parts of the token
RuleStyle(tok) ==
    LET timed == tok.H # <<>>
        dated == tok.d # <<>>
    IN  CASE BeginsWithTilde(tok) -> ":R"
          [] ~BeginsWithTilde(tok) /\ PrefixBegins(tok, "t") -> ":t"
          [] ~BeginsWithTilde(tok) /\ PrefixBegins(tok, "d") -> ":D"
          [] OTHER ->
               CASE timed /\ dated -> ":f"
                 [] timed /\ ~dated -> ":t"
                 [] ~timed /\ dated -> ":D"
                 [] OTHER -> ""

\* C9: the display style of a timestamp token is the first rule that
\* applies: leading ~ gives R; prefix beginning with t gives t; prefix
\* beginning with d gives D; time and date both present gives f; time only
\* gives t; date only gives D; otherwise no style suffix.
C9_StylePriority ==
    style # <<>> => style[1] = RuleStyle(token)

\* a token with a t! prefix and both a date and a time got the style t
C9_Witness ==
    /\ style = <<":t">>
    /\ ~token.tilde
    /\ PrefixBegins(token, "t")
    /\ token.H # <<>>
    /\ token.d # <<>>

(***************************************************************************)
(* The timezone file.  A timedelta is [days, seconds] as Python normalises *)
(* it (0 <= seconds < 86400); a timezone is its utcoffset timedelta.       *)
(***************************************************************************)
MinTz == -12
MaxTz == 12

\* timedelta(hours=h)
TimedeltaHours(h) ==
    [days |-> (h * 3600) \div 86400, seconds |-> (h * 3600) % 86400]

\* timedelta.total_seconds()
TotalSeconds(td) == td.days * 86400 + td.seconds

\* str(x) of the float x = n / 3600 for n a multiple of 3600: "19.0"
FloatStr(n) == DecStr(n \div 3600) \o <<".", "0">>

\* the value of a digit character
DigitVal(c) == (CHOOSE i \in 1..10 : DigitChar[i] = c) - 1

\* int of a text of digits
RECURSIVE DigitsVal(_)
DigitsVal(text) ==
    IF text = <<>> THEN 0
    ELSE DigitsVal(SubSeq(text, 1, Len(text) - 1)) * 10
         + DigitVal(text[Len(text)])

\* float(text) for a text "[-]digits.0", as an integer
ParseFloat(text) ==
    LET neg == StartsWith(text, "-")
        body == IF neg THEN Tail(text) ELSE text
        whole == PartitionHead(body, ".")
    IN  IF neg THEN 0 - DigitsVal(whole) ELSE DigitsVal(whole)

\* set_timezone: the text written to timezone.txt
set_timezone(tz) == <<FloatStr(tz.seconds)>>

\* get_timezone
get_timezone(file) ==
    IF file # <<>> THEN TimedeltaHours(ParseFloat(file[1]))
    ELSE TimedeltaHours(0)

(***************************************************************************)
(* /timezone (specification SpecTz).                                       *)
(***************************************************************************)
\* timezone_command up to its await: the file is written, the reply is sent
TimezoneCommand(h) ==
    /\ tzPending < MaxPending
    /\ tzfile' = set_timezone(TimedeltaHours(h))
    /\ tzLastH' = <<h>>
    /\ tzPending' = tzPending + 1
    /\ UNCHANGED tzRead
    /\ UNCHANGED notTzVars

\* the ctx.send of a timezone_command returns or raises: the handler ends
TimezoneReplied ==
    /\ tzPending > 0
    /\ tzPending' = tzPending - 1
    /\ UNCHANGED <<tzfile, tzLastH, tzRead>>
    /\ UNCHANGED notTzVars

\* a timestamp substitution reads the configured timezone (dt_replacer)
ReadTimezone ==
    /\ tzRead' = <<get_timezone(tzfile)>>
    /\ UNCHANGED <<tzfile, tzLastH, tzPending>>
    /\ UNCHANGED notTzVars

InitTz ==
    /\ NoTimezone
    /\ NoToken
    /\ CacheConstructed(1)
    /\ BotLoaded
    /\ NoSubstitution

NextTz ==
    \/ \E h \in MinTz..MaxTz : TimezoneCommand(h)
    \/ TimezoneReplied
    \/ ReadTimezone

SpecTz == InitTz /\ [][NextTz]_vars

\* C7: after the timezone-set command with argument h in -12..12, the
\* persisted value and the offset returned by get_timezone are exactly h
\* hours, so the configured offset is the last h written and lies in
\* [-12, 12].
C7_TimezoneRoundTrip ==
    tzLastH # <<>> =>
        /\ ParseFloat(tzfile[1]) = tzLastH[1]
        /\ TotalSeconds(get_timezone(tzfile)) = tzLastH[1] * 3600
        /\ TotalSeconds(get_timezone(tzfile)) \in
               {h * 3600 : h \in MinTz..MaxTz}

(***************************************************************************)
(* datetime: a datetime is [year, month, day, hour, minute, second] with   *)
(* its utcoffset in seconds; the clock is a count of seconds since the     *)
(* epoch.                                                                  *)
(***************************************************************************)
IsLeap(y) == (y % 4 = 0) /\ ((y % 100 # 0) \/ (y % 400 = 0))

DaysInMonth(y, m) ==
    IF m = 2 THEN (IF IsLeap(y) THEN 29 ELSE 28)
    ELSE IF m \in {4, 6, 9, 11} THEN 30
    ELSE 31

\* days from 1970-01-01 to the first day of year y >= 1970
DaysBeforeYear(y) ==
    LET leaps(n) == (n \div 4) - (n \div 100) + (n \div 400)
    IN  365 * (y - 1970) + leaps(y - 1) - leaps(1969)

\* days from the first day of year y to the first day of its month m
RECURSIVE DaysBeforeMonth(_, _)
DaysBeforeMonth(y, m) ==
    IF m = 1 THEN 0
    ELSE DaysBeforeMonth(y, m - 1) + DaysInMonth(y, m - 1)

\* the years the clock and the tokens of the model fall in
ClockYears == 1970..2037

\* datetime.now().astimezone(tz) for the clock at t seconds since the epoch
Astimezone(t, tz) ==
    LET local == t + TotalSeconds(tz)
        days == local \div 86400
        secs == local % 86400
        y == CHOOSE yy \in ClockYears :
                 DaysBeforeYear(yy) <= days /\ days < DaysBeforeYear(yy + 1)
        yday == days - DaysBeforeYear(y)
        m == CHOOSE mm \in 1..12 :
                 /\ DaysBeforeMonth(y, mm) <= yday
                 /\ yday < DaysBeforeMonth(y, mm) + DaysInMonth(y, mm)
    IN  [year |-> y, month |-> m, day |-> yday - DaysBeforeMonth(y, m) + 1,
         hour |-> secs \div 3600, minute |-> (secs % 3600) \div 60,
         second |-> secs % 60, utcoffset |-> TotalSeconds(tz)]

\* the field checks of the datetime constructor, which datetime.replace calls
ValidDatetime(dt) ==
    /\ dt.year \in 1..9999
    /\ dt.month \in 1..12
    /\ dt.day \in 1..DaysInMonth(dt.year, dt.month)
    /\ dt.hour \in 0..23
    /\ dt.minute \in 0..59
    /\ dt.second \in 0..59

\* int(dt.timestamp()) of an aware datetime
Timestamp(dt) ==
    (DaysBeforeYear(dt.year) + DaysBeforeMonth(dt.year, dt.month)
        + dt.day - 1) * 86400
    + dt.hour * 3600 + dt.minute * 60 + dt.second - dt.utcoffset

ValueError == [error |-> "ValueError"]

\* dt_replacer, lines 117-126: now.replace(key=val) for each group that is
\* not None, in the order year, month, day, hour, minute, second; the first
\* replace whose result is not a valid datetime raises ValueError
RECURSIVE ReplaceFields(_, _, _)
ReplaceFields(dt, tok, keys) ==
    IF keys = <<>> THEN dt
    ELSE LET key == Head(keys)
             val == CASE key = "year" -> tok.y
                      [] key = "month" -> tok.m
                      [] key = "day" -> tok.d
                      [] key = "hour" -> tok.H
                      [] key = "minute" -> tok.M
                      [] key = "second" -> tok.S
             next == IF val = <<>> THEN dt ELSE [dt EXCEPT ![key] = val[1]]
         IN  IF ValidDatetime(next)
             THEN ReplaceFields(next, tok, Tail(keys))
             ELSE ValueError

FieldOrder == <<"year", "month", "day", "hour", "minute", "second">>

\* dt_replacer: the tag that replaces the token, or ValueError
dt_replacer(tok, t, file) ==
    LET base == [Astimezone(t, get_timezone(file)) EXCEPT !.second = 0]
        dt == ReplaceFields(base, tok, FieldOrder)
    IN  IF dt = ValueError THEN ValueError
        ELSE [k |-> "tag", epoch |-> Timestamp(dt), spec |-> TokenSpec(tok)]

(***************************************************************************)
(* Templates.  A template string is a sequence of items: a literal text    *)
(* [k |-> "text"], a backslash followed by n [k |-> "bsn"], a match of     *)
(* DT_PATTERN [k |-> "dt", tok] and a match of EMOJI_PATTERN               *)
(* [k |-> "emoji", name].  A substituted string also holds a newline       *)
(* [k |-> "nl"], the tag <t:epoch spec> [k |-> "tag"], the reference       *)
(* <:name:id> [k |-> "ref"] and the plain :name: [k |-> "plain"].          *)
(***************************************************************************)
\* string.replace('\\n', '\n')
Unescape(string) ==
    [i \in 1..Len(string) |->
        IF string[i].k = "bsn" THEN [k |-> "nl"] ELSE string[i]]

\* DT_PATTERN.sub(dt_replacer, string): the new string, or not ok if a
\* replacement raised ValueError
SubDt(string, t, file) ==
    LET out == [i \in 1..Len(string) |->
                   IF string[i].k = "dt"
                   THEN dt_replacer(string[i].tok, t, file)
                   ELSE string[i]]
    IN  [ok |-> \A i \in 1..Len(out) : out[i] # ValueError, out |-> out]

\* EMOJI_PATTERN.search(string)
HasEmoji(string) == \E i \in 1..Len(string) : string[i].k = "emoji"

\* emoji_replacer with a fault: the name is never looked up
EmojiReplacerNoLookup(name, dir) == [k |-> "plain", name |-> name]

\* emoji_replacer
emoji_replacer(name, dir) ==
    IF name \in DOMAIN dir
    THEN [k |-> "ref", name |-> name, id |-> dir[name]]
    ELSE [k |-> "plain", name |-> name]

\* EMOJI_PATTERN.sub(emoji_replacer, string)
SubEmoji(string, dir) ==
    [i \in 1..Len(string) |->
        IF string[i].k = "emoji"
        THEN emoji_replacer(string[i].name, dir)
        ELSE string[i]]

\* update_emojis, line 142: the test that skips the fetch
Throttled(t, updated) == t - updated < ThrottleSeconds

\* update_emojis with a fault: the directory is rebuilt from the items
MergeItemsRebuilds(dir, data) == data

\* update_emojis, lines 150-151: the directory after the loop over the items
MergeItems(dir, data) ==
    [n \in (DOMAIN dir) \cup (DOMAIN data) |->
        IF n \in DOMAIN data THEN data[n] ELSE dir[n]]

(***************************************************************************)
(* The handlers (specification SpecBot).  A handler runs without           *)
(* interruption from one await to the next; each action is one such run.   *)
(* A task is the invocation in a slot: kind (the handler), pc (the await   *)
(* it is suspended at), message (the template given or submitted), target  *)
(* (ctx.target's id), text (the string make_message holds, then the        *)
(* contents to send; dropped when it ends), calls (the platform calls it made so far), outcome   *)
(* and exc (how it ended), wrote (it assigned into timestr_cache),         *)
(* fetchFailed (its directory fetch raised).                               *)
(***************************************************************************)
Tasks == 1..MaxTasks
\* identifiers of the messages /echo sends
MsgIds == 1..MaxMsg
\* a message somebody else wrote
UserMsg == MaxMsg + 1
\* a message the bot sent outside /echo (user info): never in timestr_cache
InfoMsg == MaxMsg + 2
\* the names the platform's directory may list
Names == {"a"}
EmojiIds == 1..MaxEmojiId
\* what the platform may answer to the directory fetch: data['items']
RemoteDirs == UNION {[S -> EmojiIds] : S \in SUBSET Names}

StartTime ==
    Timestamp([year |-> 2024, month |-> 2, day |-> 29, hour |-> 12,
               minute |-> 34, second |-> 56, utcoffset |-> 0])

NoDate == [y |-> <<>>, m |-> <<>>, d |-> <<>>]
NoTime == [H |-> <<>>, M |-> <<>>, S |-> <<>>]
\* {9:30}
TimeToken == MkToken(FALSE, <<>>, NoDate, [H |-> <<9>>, M |-> <<30>>, S |-> <<>>])
\* {13/1}: month 13
BadToken == MkToken(FALSE, <<>>, [y |-> <<>>, m |-> <<13>>, d |-> <<1>>], NoTime)

\* hi\n{9:30}
Timed == <<[k |-> "text", v |-> "hi"], [k |-> "bsn"], [k |-> "dt", tok |-> TimeToken]>>
\* ::a:: ::b::
Emo == <<[k |-> "emoji", name |-> "a"], [k |-> "text", v |-> " "],
         [k |-> "emoji", name |-> "b"]>>
\* {13/1}::a::
BadDate == <<[k |-> "dt", tok |-> BadToken], [k |-> "emoji", name |-> "a"]>>

BotTemplates == {Timed, Emo, BadDate}

NoTask ==
    [kind |-> "none", pc |-> "idle", message |-> <<>>, target |-> 0,
     text |-> <<>>, calls |-> <<>>, outcome |-> "none", exc |-> "",
     wrote |-> FALSE, fetchFailed |-> FALSE]

\* slot t takes the next invocation: the lowest slot with no handler running
Free(t) ==
    /\ started < MaxInvocations
    /\ tasks[t].pc \in {"idle", "done"}
    /\ \A u \in 1..(t - 1) : tasks[u].pc \notin {"idle", "done"}

\* the handler returns
Return(task) ==
    [task EXCEPT !.pc = "done", !.outcome = "returned", !.text = <<>>]

\* an exception leaves the handler
Raise(task, exc) ==
    [task EXCEPT !.pc = "done", !.outcome = "raised", !.exc = exc,
                 !.text = <<>>]

\* the slots after the invocation in slot t has run up to task: the record
\* of an invocation that ended is kept for one step
Step(t, task) ==
    [u \in DOMAIN tasks |->
        IF u = t THEN task
        ELSE IF tasks[u].pc = "done" THEN NoTask
        ELSE tasks[u]]

\* the call that follows make_message: ctx.send(contents) in echo_command,
\* mctx.edit(message.id, content=...) in edit_context
Deliver(task, contents) ==
    IF task.kind = "echo"
    THEN [task EXCEPT !.pc = "send", !.text = contents,
                      !.calls = Append(@, "send")]
    ELSE [task EXCEPT !.pc = "edit", !.text = contents,
                      !.calls = Append(@, "edit")]

\* make_message from its call to the await in update_emojis (the fetch is
\* issued) or, when there is no fetch, to its return and the call after it
BeginMakeMessage(task, string) ==
    LET sub == SubDt(Unescape(string), now, tzfile)
    IN  IF ~sub.ok THEN Raise(task, "ValueError")
        ELSE IF HasEmoji(sub.out) /\ ~Throttled(now, emoji_updated)
        THEN [task EXCEPT !.pc = "fetch", !.text = sub.out,
                          !.calls = Append(@, "fetch")]
        ELSE Deliver(task, SubEmoji(sub.out, emojis))

InitBot ==
    /\ now = StartTime
    /\ emojis = EmptyDict
    /\ emoji_updated = 0
    /\ refreshedAt = <<>>
    /\ timestr_cache = SizedCacheInit(TimestrCacheSize)
    /\ messages =
         [id \in {UserMsg, InfoMsg} |->
            [author |-> IF id = UserMsg THEN "user" ELSE "bot",
             content |-> <<[k |-> "text", v |-> "hi"]>>, deleted |-> FALSE]]
    /\ tasks = [t \in Tasks |-> NoTask]
    /\ started = 0
    /\ NoTimezone
    /\ NoToken
    /\ CacheConstructed(1)
    /\ NoSubstitution

\* echo_command, line 186
EchoCommand(t, message) ==
    /\ Free(t)
    /\ tasks' = Step(t,
           BeginMakeMessage(
               [NoTask EXCEPT !.kind = "echo", !.message = message], message))
    /\ UNCHANGED <<now, emojis, emoji_updated, refreshedAt, timestr_cache,
                   messages>>
    /\ started' = started + 1
    /\ UNCHANGED notBotVars

\* update_emojis, lines 149-151, then make_message, lines 160-161, and the
\* call after it: the fetch returned data
FetchReturned(t, data) ==
    /\ tasks[t].pc = "fetch"
    /\ emojis' = MergeItems(emojis, data)
    /\ refreshedAt' = <<now>>
    /\ tasks' = Step(t,
           Deliver(tasks[t],
                   SubEmoji(tasks[t].text, MergeItems(emojis, data))))
    /\ UNCHANGED <<now, emoji_updated, timestr_cache, messages>>
    /\ UNCHANGED started
    /\ UNCHANGED notBotVars

\* update_emojis, line 149: the fetch raised; nothing catches it
FetchRaised(t) ==
    /\ tasks[t].pc = "fetch"
    /\ tasks' = Step(t,
           Raise([tasks[t] EXCEPT !.fetchFailed = TRUE], "HTTPException"))
    /\ UNCHANGED <<now, emojis, emoji_updated, refreshedAt, timestr_cache,
                   messages>>
    /\ UNCHANGED started
    /\ UNCHANGED notBotVars

\* echo_command with a fault: the contents sent are cached, not the template
SendReturnedCachesContents(t) ==
    /\ tasks[t].pc = "send"
    /\ LET id == Cardinality((DOMAIN messages) \cap MsgIds) + 1
       IN  /\ id \in MsgIds
           /\ messages' = DictSet(messages, id,
                  [author |-> "bot", content |-> tasks[t].text,
                   deleted |-> FALSE])
           /\ timestr_cache' = SetItem(timestr_cache, id, tasks[t].text)
           /\ tasks' = Step(t,
                  Return([tasks[t] EXCEPT !.wrote = TRUE, !.target = id]))
    /\ UNCHANGED <<now, emojis, emoji_updated, refreshedAt>>
    /\ UNCHANGED started
    /\ UNCHANGED notBotVars

\* echo_command, lines 187-188: ctx.send returned the new message
SendReturned(t) ==
    /\ tasks[t].pc = "send"
    /\ LET id == Cardinality((DOMAIN messages) \cap MsgIds) + 1
       IN  /\ id \in MsgIds
           /\ messages' = DictSet(messages, id,
                  [author |-> "bot", content |-> tasks[t].text,
                   deleted |-> FALSE])
           /\ timestr_cache' = SetItem(timestr_cache, id, tasks[t].message)
           /\ tasks' = Step(t,
                  Return([tasks[t] EXCEPT !.wrote = TRUE, !.target = id]))
    /\ UNCHANGED <<now, emojis, emoji_updated, refreshedAt>>
    /\ UNCHANGED started
    /\ UNCHANGED notBotVars

\* echo_command, line 187: ctx.send raised
SendRaised(t) ==
    /\ tasks[t].pc = "send"
    /\ tasks' = Step(t, Raise(tasks[t], "HTTPException"))
    /\ UNCHANGED <<now, emojis, emoji_updated, refreshedAt, timestr_cache,
                   messages>>
    /\ UNCHANGED started
    /\ UNCHANGED notBotVars

\* edit_context with a fault: no test of the author
EditContextNoCheck(t, target) ==
    /\ Free(t)
    /\ target \in DOMAIN messages
    /\ ~messages[target].deleted
    /\ tasks' = Step(t,
           [NoTask EXCEPT !.kind = "edit", !.target = target,
                          !.pc = "modal", !.calls = <<"modal">>,
                          !.text = IF Contains(timestr_cache, target)
                                   THEN GetItem(timestr_cache, target)
                                   ELSE <<>>])
    /\ UNCHANGED <<now, emojis, emoji_updated, refreshedAt, timestr_cache,
                   messages>>
    /\ started' = started + 1
    /\ UNCHANGED notBotVars

\* edit_context, lines 210-222: up to ctx.send (not the bot's message) or
\* ctx.send_modal
EditContext(t, target) ==
    /\ Free(t)
    /\ target \in DOMAIN messages
    /\ ~messages[target].deleted
    /\ tasks' = Step(t,
           IF messages[target].author # "bot"
           THEN [NoTask EXCEPT !.kind = "edit", !.target = target,
                               !.pc = "notice", !.calls = <<"reject">>]
           ELSE [NoTask EXCEPT !.kind = "edit", !.target = target,
                               !.pc = "modal", !.calls = <<"modal">>,
                               !.text = IF Contains(timestr_cache, target)
                                        THEN GetItem(timestr_cache, target)
                                        ELSE <<>>])
    /\ UNCHANGED <<now, emojis, emoji_updated, refreshedAt, timestr_cache,
                   messages>>
    /\ started' = started + 1
    /\ UNCHANGED notBotVars

\* edit_context, line 222: ctx.send_modal raised
ModalRaised(t) ==
    /\ tasks[t].pc = "modal"
    /\ tasks' = Step(t, Raise(tasks[t], "HTTPException"))
    /\ UNCHANGED <<now, emojis, emoji_updated, refreshedAt, timestr_cache,
                   messages>>
    /\ UNCHANGED started
    /\ UNCHANGED notBotVars

\* edit_context, lines 224-228: the form was submitted with text; the cache
\* entry is assigned, then make_message is called
ModalSubmitted(t, text) ==
    /\ tasks[t].pc = "modal"
    /\ timestr_cache' = SetItem(timestr_cache, tasks[t].target, text)
    /\ tasks' = Step(t,
           BeginMakeMessage(
               [tasks[t] EXCEPT !.message = text, !.wrote = TRUE], text))
    /\ UNCHANGED <<now, emojis, emoji_updated, refreshedAt, messages>>
    /\ UNCHANGED started
    /\ UNCHANGED notBotVars

\* edit_context with a fault: a timeout is taken as an empty submission
ModalTimedOutAsEmpty(t) ==
    /\ tasks[t].pc = "modal"
    /\ timestr_cache' = SetItem(timestr_cache, tasks[t].target, <<>>)
    /\ tasks' = Step(t, Return([tasks[t] EXCEPT !.wrote = TRUE]))
    /\ UNCHANGED <<now, emojis, emoji_updated, refreshedAt, messages>>
    /\ UNCHANGED started
    /\ UNCHANGED notBotVars

\* edit_context, lines 225-226: wait_for_modal timed out (the framework's
\* timer ran ModalTimeoutSeconds without a submission)
ModalTimedOut(t) ==
    /\ tasks[t].pc = "modal"
    /\ tasks' = Step(t, Return(tasks[t]))
    /\ UNCHANGED <<now, emojis, emoji_updated, refreshedAt, timestr_cache,
                   messages>>
    /\ UNCHANGED started
    /\ UNCHANGED notBotVars

\* edit_context, line 228: mctx.edit returned
EditReturned(t) ==
    /\ tasks[t].pc = "edit"
    /\ ~messages[tasks[t].target].deleted
    /\ messages' = [messages EXCEPT ![tasks[t].target].content = tasks[t].text]
    /\ tasks' = Step(t, Return(tasks[t]))
    /\ UNCHANGED <<now, emojis, emoji_updated, refreshedAt, timestr_cache>>
    /\ UNCHANGED started
    /\ UNCHANGED notBotVars

\* edit_context, line 228: mctx.edit raised
EditRaised(t) ==
    /\ tasks[t].pc = "edit"
    /\ tasks' = Step(t, Raise(tasks[t], "HTTPException"))
    /\ UNCHANGED <<now, emojis, emoji_updated, refreshedAt, timestr_cache,
                   messages>>
    /\ UNCHANGED started
    /\ UNCHANGED notBotVars

\* delete_context, lines 234-239: up to ctx.send (not the bot's message) or
\* message.delete
DeleteContext(t, target) ==
    /\ Free(t)
    /\ target \in DOMAIN messages
    /\ ~messages[target].deleted
    /\ tasks' = Step(t,
           IF messages[target].author # "bot"
           THEN [NoTask EXCEPT !.kind = "delete", !.target = target,
                               !.pc = "notice", !.calls = <<"reject">>]
           ELSE [NoTask EXCEPT !.kind = "delete", !.target = target,
                               !.pc = "delete", !.calls = <<"delete">>])
    /\ UNCHANGED <<now, emojis, emoji_updated, refreshedAt, timestr_cache,
                   messages>>
    /\ started' = started + 1
    /\ UNCHANGED notBotVars

\* delete_context, lines 239 and 242: message.delete returned; the success
\* notice is sent
DeleteReturned(t) ==
    /\ tasks[t].pc = "delete"
    /\ ~messages[tasks[t].target].deleted
    /\ messages' = [messages EXCEPT ![tasks[t].target].deleted = TRUE]
    /\ tasks' = Step(t,
           [tasks[t] EXCEPT !.pc = "notice", !.calls = Append(@, "deleted")])
    /\ UNCHANGED <<now, emojis, emoji_updated, refreshedAt, timestr_cache>>
    /\ UNCHANGED started
    /\ UNCHANGED notBotVars

\* delete_context with a fault: no try/except around message.delete
DeleteRaisedEscapes(t) ==
    /\ tasks[t].pc = "delete"
    /\ tasks' = Step(t, Raise(tasks[t], "HTTPException"))
    /\ UNCHANGED <<now, emojis, emoji_updated, refreshedAt, timestr_cache,
                   messages>>
    /\ UNCHANGED started
    /\ UNCHANGED notBotVars

\* delete_context, lines 240-241: message.delete raised; the failure notice
\* is sent
DeleteRaised(t) ==
    /\ tasks[t].pc = "delete"
    /\ tasks' = Step(t,
           [tasks[t] EXCEPT !.pc = "notice", !.calls = Append(@, "failed")])
    /\ UNCHANGED <<now, emojis, emoji_updated, refreshedAt, timestr_cache,
                   messages>>
    /\ UNCHANGED started
    /\ UNCHANGED notBotVars

\* the ephemeral ctx.send of edit_context or delete_context returned
NoticeReturned(t) ==
    /\ tasks[t].pc = "notice"
    /\ tasks' = Step(t, Return(tasks[t]))
    /\ UNCHANGED <<now, emojis, emoji_updated, refreshedAt, timestr_cache,
                   messages>>
    /\ UNCHANGED started
    /\ UNCHANGED notBotVars

\* the ephemeral ctx.send of edit_context or delete_context raised
NoticeRaised(t) ==
    /\ tasks[t].pc = "notice"
    /\ tasks' = Step(t, Raise(tasks[t], "HTTPException"))
    /\ UNCHANGED <<now, emojis, emoji_updated, refreshedAt, timestr_cache,
                   messages>>
    /\ UNCHANGED started
    /\ UNCHANGED notBotVars

\* time passes
Tick ==
    /\ now < StartTime + MaxTicks * TickSeconds
    /\ now' = now + TickSeconds
    /\ UNCHANGED <<emojis, emoji_updated, refreshedAt, timestr_cache,
                   messages, tasks>>
    /\ UNCHANGED started
    /\ UNCHANGED notBotVars

NextBot ==
    \/ \E t \in Tasks, m \in BotTemplates : EchoCommand(t, m)
    \/ \E t \in Tasks, d \in RemoteDirs : FetchReturned(t, d)
    \/ \E t \in Tasks : FetchRaised(t)
    \/ \E t \in Tasks : SendReturned(t)
    \/ \E t \in Tasks : SendRaised(t)
    \/ \E t \in Tasks, m \in DOMAIN messages : EditContext(t, m)
    \/ \E t \in Tasks : ModalRaised(t)
    \/ \E t \in Tasks, m \in BotTemplates : ModalSubmitted(t, m)
    \/ \E t \in Tasks : ModalTimedOut(t)
    \/ \E t \in Tasks : EditReturned(t)
    \/ \E t \in Tasks : EditRaised(t)
    \/ \E t \in Tasks, m \in DOMAIN messages : DeleteContext(t, m)
    \/ \E t \in Tasks : DeleteReturned(t)
    \/ \E t \in Tasks : DeleteRaised(t)
    \/ \E t \in Tasks : NoticeReturned(t)
    \/ \E t \in Tasks : NoticeRaised(t)
    \/ Tick

SpecBot == InitBot /\ [][NextBot]_vars

(***************************************************************************)
(* The handlers when every substitution and every platform call succeeds   *)
(* (specification SpecBotOk): /echo and the edit context menu, interleaved *)
(* at their awaits.                                                        *)
(***************************************************************************)
\* the templates whose substitution succeeds
OkTemplates == BotTemplates \ {BadDate}

NextBotOk ==
    \/ \E t \in Tasks, m \in OkTemplates : EchoCommand(t, m)
    \/ \E t \in Tasks, d \in RemoteDirs : FetchReturned(t, d)
    \/ \E t \in Tasks : SendReturned(t)
    \/ \E t \in Tasks, m \in DOMAIN messages : EditContext(t, m)
    \/ \E t \in Tasks, m \in OkTemplates : ModalSubmitted(t, m)
    \/ \E t \in Tasks : ModalTimedOut(t)
    \/ \E t \in Tasks : EditReturned(t)
    \/ \E t \in Tasks : NoticeReturned(t)
    \/ Tick

SpecBotOk == InitBot /\ [][NextBotOk]_vars

(***************************************************************************)
(* dt_replacer on tokens, clocks and timezone files (specification         *)
(* SpecDt).                                                                *)
(***************************************************************************)
\* the clocks dt_replacer is called at, in UTC: a leap day, the last day of
\* a 31-day month, the last evening of a year
DtClocks ==
    { Timestamp([year |-> 2024, month |-> 2, day |-> 29, hour |-> 12,
                 minute |-> 34, second |-> 56, utcoffset |-> 0]),
      Timestamp([year |-> 2023, month |-> 1, day |-> 31, hour |-> 23,
                 minute |-> 59, second |-> 30, utcoffset |-> 0]),
      Timestamp([year |-> 2024, month |-> 12, day |-> 31, hour |-> 20,
                 minute |-> 0, second |-> 0, utcoffset |-> 0]) }

\* timezone.txt: absent, or as /timezone 8 and /timezone -5 write it
DtZones ==
    {<<>>, set_timezone(TimedeltaHours(8)), set_timezone(TimedeltaHours(-5))}

\* (none), 2/15, 3/31, 2/30, 13/1, 2023/3/1, 2024/2/29
DtDates ==
    { NoDate,
      [y |-> <<>>, m |-> <<2>>, d |-> <<15>>],
      [y |-> <<>>, m |-> <<3>>, d |-> <<31>>],
      [y |-> <<>>, m |-> <<2>>, d |-> <<30>>],
      [y |-> <<>>, m |-> <<13>>, d |-> <<1>>],
      [y |-> <<2023>>, m |-> <<3>>, d |-> <<1>>],
      [y |-> <<2024>>, m |-> <<2>>, d |-> <<29>>] }

\* (none), 9:30, 23:59:59, 24:00
DtTimes ==
    { NoTime,
      [H |-> <<9>>, M |-> <<30>>, S |-> <<>>],
      [H |-> <<23>>, M |-> <<59>>, S |-> <<59>>],
      [H |-> <<24>>, M |-> <<0>>, S |-> <<>>] }

DtTokens == { MkToken(FALSE, <<>>, dd, tt) : dd \in DtDates, tt \in DtTimes }

InitDt ==
    /\ now \in DtClocks
    /\ tzfile \in DtZones
    /\ token \in DtTokens
    /\ style = <<>>
    /\ tzLastH = <<>>
    /\ tzPending = 0
    /\ tzRead = <<>>
    /\ emojis = EmptyDict
    /\ emoji_updated = 0
    /\ refreshedAt = <<>>
    /\ timestr_cache = SizedCacheInit(TimestrCacheSize)
    /\ messages = EmptyDict
    /\ tasks = <<>>
    /\ started = 0
    /\ CacheConstructed(1)
    /\ NoSubstitution

\* DT_PATTERN.sub calls dt_replacer on the match
ApplyDtReplacer ==
    /\ instant = <<>>
    /\ instant' = <<dt_replacer(token, now, tzfile)>>
    /\ UNCHANGED notDtVars

NextDt == ApplyDtReplacer

SpecDt == InitDt /\ [][NextDt]_vars

\* the current time in the configured timezone, second zeroed
BaseInstant == [Astimezone(now, get_timezone(tzfile)) EXCEPT !.second = 0]

\* the field of the claim: the token's value where the group is present, the
\* base instant's where it is absent
FieldOf(group, base, key) == IF group # <<>> THEN group[1] ELSE base[key]

\* the instant the claim describes for token tok
ClaimedInstant(tok) ==
    [year |-> FieldOf(tok.y, BaseInstant, "year"),
     month |-> FieldOf(tok.m, BaseInstant, "month"),
     day |-> FieldOf(tok.d, BaseInstant, "day"),
     hour |-> FieldOf(tok.H, BaseInstant, "hour"),
     minute |-> FieldOf(tok.M, BaseInstant, "minute"),
     second |-> FieldOf(tok.S, BaseInstant, "second"),
     utcoffset |-> BaseInstant.utcoffset]

\* C15: for every current date and time and every timestamp token, the
\* resolved instant has each field equal to the token's value where the
\* group is present and to the current time's field in the configured
\* timezone (second zeroed) where it is absent; the substitution succeeds
\* whenever that final combination of fields is a valid calendar date,
\* whatever the current date is.
C15_FieldsOverrideBase ==
    (instant # <<>> /\ ValidDatetime(ClaimedInstant(token))) =>
        /\ instant[1] # ValueError
        /\ instant[1].epoch = Timestamp(ClaimedInstant(token))

(***************************************************************************)
(* The emoji directory under test (specification SpecEmoji): refreshes     *)
(* with every answer of the platform, and resolutions of templates, in any *)
(* order.                                                                  *)
(***************************************************************************)
\* the names and identifiers the platform may list
EmojiNames == {"a", "b"}
FetchIds == 0..MaxEmojiId
\* data['items'] of an answer
FetchedItems == UNION {[S -> FetchIds] : S \in SUBSET EmojiNames}

\* ::a:: ::b::, ::b::-::c::, hi
EmojiStrings ==
    { Emo,
      <<[k |-> "emoji", name |-> "b"], [k |-> "text", v |-> "-"],
        [k |-> "emoji", name |-> "c"]>>,
      <<[k |-> "text", v |-> "hi"]>> }

InitEmoji ==
    /\ now = StartTime
    /\ emojis = EmptyDict
    /\ emoji_updated = 0
    /\ refreshedAt = <<>>
    /\ timestr_cache = SizedCacheInit(TimestrCacheSize)
    /\ messages = EmptyDict
    /\ tasks = <<>>
    /\ started = 0
    /\ NoTimezone
    /\ NoToken
    /\ CacheConstructed(1)
    /\ NoSubstitution

\* update_emojis when the request returns data
UpdateEmojis(data) ==
    /\ emojiOps < MaxEmojiOps
    /\ emojiOps' = emojiOps + 1
    /\ IF Throttled(now, emoji_updated)
       THEN UNCHANGED <<emojis, refreshed>>
       ELSE /\ emojis' = MergeItems(emojis, data)
            /\ refreshed' = <<[before |-> emojis, items |-> data]>>
    /\ resolved' = <<>>
    /\ UNCHANGED notEmojiVars

\* update_emojis when the request raises
UpdateEmojisRaised ==
    /\ emojiOps < MaxEmojiOps
    /\ emojiOps' = emojiOps + 1
    /\ resolved' = <<>>
    /\ UNCHANGED <<emojis, refreshed>>
    /\ UNCHANGED notEmojiVars

\* make_message, line 160: EMOJI_PATTERN.sub(emoji_replacer, string)
ResolveEmojis(string) ==
    /\ emojiOps < MaxEmojiOps
    /\ emojiOps' = emojiOps + 1
    /\ resolved' = <<[string |-> string, out |-> SubEmoji(string, emojis)]>>
    /\ UNCHANGED <<emojis, refreshed>>
    /\ UNCHANGED notEmojiVars

NextEmoji ==
    \/ \E data \in FetchedItems : UpdateEmojis(data)
    \/ UpdateEmojisRaised
    \/ \E string \in EmojiStrings : ResolveEmojis(string)

SpecEmoji == InitEmoji /\ [][NextEmoji]_vars

\* C14: for every emoji token ::name:: in a template and every state of the
\* emoji directory at resolution time, the token is replaced by <:name:id>
\* with the directory's identifier for that name when the name is in the
\* directory, and by :name: when it is not.
C14_EmojiResolution ==
    resolved # <<>> =>
        LET string == resolved[1].string
            out == resolved[1].out
        IN  /\ Len(out) = Len(string)
            /\ \A i \in 1..Len(string) :
                   IF string[i].k # "emoji" THEN out[i] = string[i]
                   ELSE IF string[i].name \in DOMAIN emojis
                   THEN /\ out[i].k = "ref"
                        /\ out[i].name = string[i].name
                        /\ out[i].id = emojis[string[i].name]
                   ELSE /\ out[i].k = "plain"
                        /\ out[i].name = string[i].name

\* ::a:: ::b:: was resolved with a in the directory after an overwrite of
\* its identifier and b not in it
C14_Witness ==
    /\ resolved # <<>>
    /\ resolved[1].string = Emo
    /\ refreshed # <<>>
    /\ "a" \in DOMAIN refreshed[1].before
    /\ "a" \in DOMAIN emojis
    /\ refreshed[1].before["a"] # emojis["a"]
    /\ "b" \notin DOMAIN emojis
    /\ resolved[1].out[1].k = "ref"
    /\ resolved[1].out[3].k = "plain"

\* C17: the emoji directory only grows: every name present before a refresh
\* is still present after it, the names the fetch returned are added or have
\* their identifier overwritten with the fetched one, and no entry is ever
\* removed, also when the remote directory no longer lists it.
C17_DirectoryOnlyGrows ==
    /\ [](refreshed # <<>> =>
            LET before == refreshed[1].before
                items == refreshed[1].items
            IN  /\ DOMAIN emojis = (DOMAIN before) \cup (DOMAIN items)
                /\ \A n \in DOMAIN items : emojis[n] = items[n]
                /\ \A n \in (DOMAIN before) \ (DOMAIN items) :
                       emojis[n] = before[n])
    /\ [][(DOMAIN emojis) \subseteq (DOMAIN emojis')]_vars

\* the last refresh overwrote the identifier of one name and kept a name the
\* platform no longer lists
C17_Witness ==
    /\ refreshed # <<>>
    /\ \E n \in (DOMAIN refreshed[1].before) \cap (DOMAIN refreshed[1].items) :
           refreshed[1].before[n] # refreshed[1].items[n]
    /\ \E n \in (DOMAIN refreshed[1].before) \ (DOMAIN refreshed[1].items) :
           n \in DOMAIN emojis

(***************************************************************************)
(* Properties of the handlers (specification SpecBot).                     *)
(***************************************************************************)
\* task t issues the remote directory fetch in this step
IssuesFetch(t) == tasks[t].pc # "fetch" /\ tasks'[t].pc = "fetch"

\* C5: after an emoji directory refresh has happened at time T, no further
\* remote directory fetch is issued before T + 5 minutes, even if a lookup
\* misses: two make_message calls on emoji templates within 5 minutes
\* trigger one fetch.
C5_NoFetchWithinFiveMinutes ==
    [][\A t \in Tasks :
          (IssuesFetch(t) /\ refreshedAt # <<>>)
              => now >= refreshedAt[1] + ThrottleSeconds]_vars

\* C6: when the remote directory fetch fails during make_message, the
\* directory is left unchanged, the emoji tokens are resolved against it and
\* make_message returns normally: no error reaches the handler, which goes
\* on to send (or edit) the message.
C6_FetchFailureIsSilent ==
    \A t \in Tasks :
        tasks[t].fetchFailed =>
            /\ tasks[t].outcome # "raised"
            /\ \E i \in 1..Len(tasks[t].calls) :
                   tasks[t].calls[i] \in {"send", "edit"}

\* task t is an edit or delete invocation on a message the bot did not write
OnForeignMessage(t) ==
    /\ tasks[t].kind \in {"edit", "delete"}
    /\ messages[tasks[t].target].author # "bot"

\* C8: an edit or delete context-menu invocation whose target was not
\* authored by the bot ends with the ephemeral rejection notice and nothing
\* else: no edit call, no delete call, no modal, and it leaves the recency
\* cache alone.
C8_ForeignMessageRejected ==
    \A t \in Tasks :
        OnForeignMessage(t) =>
            /\ tasks[t].calls = <<"reject">>
            /\ tasks[t].pc \in {"notice", "done"}
            /\ ~tasks[t].wrote
            /\ ~Contains(timestr_cache, tasks[t].target)
            /\ ~messages[tasks[t].target].deleted

\* an edit invocation on somebody else's message has returned while a delete
\* invocation on it has sent its notice
C8_Witness ==
    /\ \E t \in Tasks :
           /\ OnForeignMessage(t)
           /\ tasks[t].kind = "edit"
           /\ tasks[t].outcome = "returned"
    /\ \E t \in Tasks :
           /\ OnForeignMessage(t)
           /\ tasks[t].kind = "delete"
           /\ tasks[t].pc = "notice"

\* the template has a timestamp token whose fields are out of calendar range
OutOfRange(string) == ~SubDt(Unescape(string), now, tzfile).ok

\* C10: when the template given to /echo or submitted in the edit form has
\* a timestamp token out of calendar range, the handler reports an ephemeral
\* error, no exception escapes the handler and no message is sent or edited.
C10_InvalidTemplateReported ==
    \A t \in Tasks :
        (/\ tasks[t].kind \in {"echo", "edit"}
         /\ tasks[t].pc = "done"
         /\ tasks[t].message # <<>>
         /\ OutOfRange(tasks[t].message))
        => /\ tasks[t].outcome = "returned"
           /\ \E i \in 1..Len(tasks[t].calls) : tasks[t].calls[i] = "error"
           /\ \A i \in 1..Len(tasks[t].calls) :
                  tasks[t].calls[i] \notin {"send", "edit"}

\* task t, an /echo invocation, ran in this step without returning
EchoRanWithoutReturning(t) ==
    /\ tasks'[t] # tasks[t]
    /\ tasks'[t].kind = "echo"
    /\ tasks'[t].outcome # "returned"

\* C11: after an /echo invocation with template T completes by sending a
\* message with identifier m, the recency cache maps m to exactly T, the
\* template as given and not the substituted text; an invocation whose
\* substitution or send fails writes no cache entry.
C11_EchoCachesTemplate ==
    /\ [](\A t \in Tasks :
             (tasks[t].kind = "echo" /\ tasks[t].outcome = "returned") =>
                 /\ tasks[t].target \in MsgIds
                 /\ Contains(timestr_cache, tasks[t].target)
                 /\ GetItem(timestr_cache, tasks[t].target) = tasks[t].message)
    /\ [][\A t \in Tasks :
             EchoRanWithoutReturning(t) => timestr_cache' = timestr_cache]_vars

\* an /echo whose template differs from its substituted text has returned
C11_Witness ==
    \E t \in Tasks :
        /\ tasks[t].kind = "echo"
        /\ tasks[t].outcome = "returned"
        /\ tasks[t].message = Timed
        /\ messages[tasks[t].target].content # tasks[t].message
        /\ GetItem(timestr_cache, tasks[t].target) = Timed

\* the wait for the form of edit invocation t timed out in this step: the
\* handler returns from the wait
TimedOut(t) ==
    /\ tasks[t].pc = "modal"
    /\ tasks'[t].pc = "done"
    /\ tasks'[t].outcome = "returned"

\* C12: when the edit form receives no submission within the 600-second
\* timeout, the invocation ends with no side effect: the recency cache, the
\* emoji directory and the target message's content are unchanged, no edit
\* call is made and no response or error is sent.
C12_TimeoutHasNoEffect ==
    [][\A t \in Tasks :
          TimedOut(t) =>
              /\ timestr_cache' = timestr_cache
              /\ emojis' = emojis
              /\ messages' = messages
              /\ tasks'[t].calls = <<"modal">>
              /\ ~tasks'[t].wrote]_vars

\* an edit invocation on a message with a cached template ended at the
\* timeout
C12_Witness ==
    \E t \in Tasks :
        /\ tasks[t].kind = "edit"
        /\ tasks[t].outcome = "returned"
        /\ tasks[t].calls = <<"modal">>
        /\ Contains(timestr_cache, tasks[t].target)

\* task t is a delete invocation on a message the bot wrote
DeletesOwnMessage(t) ==
    /\ tasks[t].kind = "delete"
    /\ messages[tasks[t].target].author = "bot"

\* the number of entries of calls equal to c
CountCalls(calls, c) == Cardinality({i \in 1..Len(calls) : calls[i] = c})

\* C13: a delete context-menu invocation on a message authored by the bot
\* makes exactly one delete call and then sends exactly one ephemeral
\* notice: the success notice if the delete call succeeded, the failure
\* notice if it failed; a failed delete call never leaves the handler as an
\* error.
C13_DeleteReportsOutcome ==
    /\ [](\A t \in Tasks :
             DeletesOwnMessage(t) =>
                 /\ CountCalls(tasks[t].calls, "delete") = 1
                 /\ tasks[t].calls[1] = "delete"
                 /\ tasks[t].pc \in {"delete", "notice", "done"}
                 /\ tasks[t].pc = "delete" => Len(tasks[t].calls) = 1
                 /\ tasks[t].pc \in {"notice", "done"} =>
                        /\ Len(tasks[t].calls) = 2
                        /\ tasks[t].calls[2] \in {"deleted", "failed"})
    /\ [][\A t \in Tasks :
             (tasks[t].kind = "delete" /\ tasks[t].pc = "delete"
                 /\ tasks'[t] # tasks[t]) =>
                 /\ tasks'[t].pc = "notice"
                 /\ tasks'[t].outcome # "raised"
                 /\ tasks'[t].calls[2] =
                        IF messages'[tasks[t].target].deleted
                           /\ ~messages[tasks[t].target].deleted
                        THEN "deleted" ELSE "failed"]_vars

\* a delete invocation whose delete call failed has sent the failure notice
\* and returned
C13_Witness ==
    \E t \in Tasks :
        /\ DeletesOwnMessage(t)
        /\ tasks[t].outcome = "returned"
        /\ tasks[t].calls = <<"delete", "failed">>
        /\ ~messages[tasks[t].target].deleted

\* the submission of edit invocation t failed in its substitution in this
\* step
SubmissionFailed(t) ==
    /\ tasks[t].pc = "modal"
    /\ tasks'[t].pc = "done"
    /\ tasks'[t].exc = "ValueError"

\* C16: on an edit-form submission the substitution pipeline is run on the
\* submitted text before the cache entry is updated and the message edited:
\* if the substitution fails, the cache entry for the target message keeps
\* its previous value (or stays absent) and the message is not edited.
C16_SubstitutionBeforeCacheUpdate ==
    [][\A t \in Tasks :
          SubmissionFailed(t) =>
              /\ timestr_cache' = timestr_cache
              /\ messages' = messages
              /\ CountCalls(tasks'[t].calls, "edit") = 0]_vars

\* no handler invocation is in flight
Quiescent == \A t \in Tasks : tasks[t].pc \in {"idle", "done"}

\* the times make_message may have run at
Clocks == {StartTime + i * TickSeconds : i \in 0..MaxTicks}

\* the substituted texts of template string: what make_message returns for
\* it at some time with some state of the directory
Renderings(string) ==
    { SubEmoji(SubDt(Unescape(string), c, tzfile).out, dir) :
        c \in Clocks, dir \in RemoteDirs }

\* C18: when every substitution and platform call succeeds, for any
\* interleaving of echo and edit invocations at their awaits, whenever no
\* invocation is in flight each message identifier in the recency cache
\* maps to the template whose substituted text is the current content of
\* that message; two concurrent edits of one message cannot leave the cache
\* with one edit's template while the message shows the other's.
C18_CacheMatchesContent ==
    Quiescent =>
        \A m \in DOMAIN timestr_cache.values :
            messages[m].content \in Renderings(timestr_cache.values[m])

====
